---- MODULE Spec2Model ----
(***************************************************************************)
(* Model of the configuration synchronisation scripts sync-resource.py,    *)
(* sync-single.py and sync-config.py: a filesystem of directories, files   *)
(* and symbolic links, the manifest, and the sync handlers stepped through *)
(* their filesystem calls (mkdir, backup, unlink, link/copy).              *)
(***************************************************************************)
EXTENDS Integers, Sequences, FiniteSets, TLC

VARIABLES
    fs,                 \* the filesystem: real path -> entry
    clock,              \* datetime.now(), in seconds
    sharedConfigPath,   \* manifest["sharedConfigPath"], expanded
    pc,                 \* position inside the running handler, "idle" between calls
    call,               \* arguments and locals of the running (or last) handler
    fs0,                \* the filesystem when the running (or last) handler was called
    ret,                \* outcome of the last handler: "none", "True", "False", "None", "raise"
    nops                \* number of handler calls started

vars == <<fs, clock, sharedConfigPath, pc, call, fs0, ret, nops>>

(***************************************************************************)
(* Bounds                                                                  *)
(***************************************************************************)
MaxOps == 2
MaxTime == 2
MaxHops == 3
MaxDepth == 8

\* the depth the marker search is meant to stop at: range(3)
SearchBound == 3

(***************************************************************************)
(* Paths: absolute paths are sequences of component names, <<>> is "/".    *)
(***************************************************************************)
Parent(p) == SubSeq(p, 1, Len(p) - 1)
Name(p) == p[Len(p)]
IsPrefix(p, q) == Len(p) <= Len(q) /\ SubSeq(q, 1, Len(p)) = p
Suffix(p, q) == SubSeq(q, Len(p) + 1, Len(q))

\* str.startswith('.') over the component names that occur in the model
DotNames == {".claude", ".codex", ".opencode", ".hid"}
startswith_dot(n) == n \in DotNames

Dir == [t |-> "dir", to |-> <<>>, c |-> 0]
File(c) == [t |-> "file", to |-> <<>>, c |-> c]
Link(p) == [t |-> "link", to |-> p, c |-> 0]

\* lstat of a real path
Kind(f, p) == IF p = <<>> THEN "dir" ELSE IF p \in DOMAIN f THEN f[p].t ELSE "none"

Restrict(f, S) == [q \in S |-> f[q]]
Put(f, p, e) == [q \in DOMAIN f \cup {p} |-> IF q = p THEN e ELSE f[q]]
Under(f, p) == {q \in DOMAIN f : IsPrefix(p, q)}
Children(f, p) == {q \in DOMAIN f : Len(q) = Len(p) + 1 /\ IsPrefix(p, q)}

\* os.path.realpath (non-strict): follow every symbolic link, keep the
\* components that do not exist; st = "loop" when the hops are used up
RECURSIVE Walk(_, _, _, _)
Walk(f, cur, rest, fuel) ==
    IF rest = <<>> THEN [st |-> "ok", path |-> cur]
    ELSE LET nxt == Append(cur, Head(rest)) IN
         IF Kind(f, nxt) = "link"
         THEN IF fuel = 0 THEN [st |-> "loop", path |-> nxt \o Tail(rest)]
              ELSE Walk(f, <<>>, f[nxt].to \o Tail(rest), fuel - 1)
         ELSE Walk(f, nxt, Tail(rest), fuel)

realpath(f, p) == Walk(f, <<>>, p, MaxHops)

\* stat(): the kind of what the path leads to, following links
StatKind(f, p) ==
    LET r == realpath(f, p) IN
    IF r.st = "ok" THEN Kind(f, r.path) ELSE "none"

\* where the final component of p lives, its parent resolved (lstat)
LReal(f, p) ==
    IF p = <<>> THEN [st |-> "ok", path |-> <<>>]
    ELSE LET r == realpath(f, Parent(p)) IN
         IF r.st = "ok" /\ Kind(f, r.path) = "dir"
         THEN [st |-> "ok", path |-> Append(r.path, Name(p))]
         ELSE [st |-> "none", path |-> p]

LKind(f, p) ==
    LET r == LReal(f, p) IN
    IF r.st = "ok" THEN Kind(f, r.path) ELSE "none"

exists(f, p) == StatKind(f, p) # "none"
is_dir(f, p) == StatKind(f, p) = "dir"
is_symlink(f, p) == LKind(f, p) = "link"

Ok(f) == [ok |-> TRUE, fs |-> f]
Err(f) == [ok |-> FALSE, fs |-> f]

\* Path.mkdir(parents=True, exist_ok=True)
RECURSIVE MkdirWalk(_, _, _)
MkdirWalk(f, cur, rest) ==
    IF rest = <<>> THEN Ok(f)
    ELSE LET nxt == Append(cur, Head(rest))
             k == Kind(f, nxt) IN
         CASE k = "none" -> MkdirWalk(Put(f, nxt, Dir), nxt, Tail(rest))
           [] k = "dir" -> MkdirWalk(f, nxt, Tail(rest))
           [] k = "file" -> Err(f)
           [] k = "link" ->
                LET r == realpath(f, nxt) IN
                IF r.st = "ok" /\ Kind(f, r.path) = "dir"
                THEN MkdirWalk(f, r.path, Tail(rest))
                ELSE Err(f)

mkdir_parents(f, p) == MkdirWalk(f, <<>>, p)

\* Path.unlink() of a symbolic link
unlink(f, p) ==
    LET r == LReal(f, p) IN
    Restrict(f, DOMAIN f \ {r.path})

\* os.rename of the tree at real path src to the free or file path dst
rename(f, src, dst) ==
    LET moved == Under(f, src)
        kept == (DOMAIN f \ moved) \ {dst}
        new == {dst \o Suffix(src, q) : q \in moved} IN
    [q \in kept \cup new |->
        IF q \in new THEN f[src \o Suffix(dst, q)] ELSE f[q]]

\* shutil.move(src, dst) of a file or directory that is not a link
move(f, src, dst) ==
    LET real_dst == IF is_dir(f, dst) THEN Append(dst, Name(src)) ELSE dst IN
    IF is_dir(f, dst) /\ exists(f, real_dst) THEN Err(f)
    ELSE IF Kind(f, real_dst) = "file" /\ Kind(f, src) = "dir" THEN Err(f)
    ELSE Ok(rename(f, src, real_dst))

\* Path.symlink_to(target)
symlink_to(f, p, target) ==
    LET r == LReal(f, p) IN
    IF r.st = "ok" /\ Kind(f, r.path) = "none"
    THEN Ok(Put(f, r.path, Link(target)))
    ELSE Err(f)

\* shutil.copy2(src, dst): the content of the file src leads to is written
\* where dst leads to (through a link at dst, into a directory at dst)
copy2(f, src, dst) ==
    LET s == realpath(f, src)
        d0 == IF is_dir(f, dst) THEN Append(dst, Name(src)) ELSE dst
        d == realpath(f, d0) IN
    IF s.st # "ok" \/ Kind(f, s.path) # "file" THEN Err(f)
    ELSE IF d.st # "ok" \/ d.path = s.path THEN Err(f)
    ELSE IF Kind(f, d.path) = "dir" \/ Kind(f, Parent(d.path)) # "dir" THEN Err(f)
    ELSE Ok(Put(f, d.path, File(f[s.path].c)))

\* shutil.copytree(src, dst, dirs_exist_ok=True): makedirs(dst), then every
\* entry of src is copied; errors are collected and raised at the end
RECURSIVE copytree(_, _, _, _)
RECURSIVE CopyEntries(_, _, _, _, _)
copytree(f, src, dst, fuel) ==
    LET entries == Children(f, realpath(f, src).path)
        m == mkdir_parents(f, dst) IN
    IF fuel = 0 \/ ~m.ok THEN Err(f)
    ELSE CopyEntries(m.fs, entries, dst, fuel, TRUE)

CopyEntries(f, es, dst, fuel, good) ==
    IF es = {} THEN [ok |-> good, fs |-> f]
    ELSE LET e == CHOOSE x \in es : TRUE
             dn == Append(dst, Name(e))
             r == IF is_dir(f, e) THEN copytree(f, e, dn, fuel - 1)
                  ELSE copy2(f, e, dn) IN
         CopyEntries(r.fs, es \ {e}, dst, fuel, good /\ r.ok)

(***************************************************************************)
(* The manifest (config-manifest.json), a fixed configuration object       *)
(***************************************************************************)
Strategies == {"symlink", "copy"}

\* agentCompatibility: resourceMapping keeps the order of the JSON object
agentCompatibility ==
    [a \in {"claude-code", "cursor", "opencode"} |->
        CASE a = "claude-code" ->
                [configDir |-> <<"cc">>,
                 resourceMapping |-> << <<"agents", <<"agents">> >>,
                                        <<"hooks", <<"hooks">> >>,
                                        <<"skills", <<"skills">> >>,
                                        <<"commands", <<"commands">> >> >>]
          [] a = "cursor" ->
                [configDir |-> <<"cu">>,
                 resourceMapping |-> << <<"skills", <<"skills">> >> >>]
          [] a = "opencode" ->
                [configDir |-> <<"oc">>,
                 resourceMapping |-> << <<"agents", <<"agents">> >>,
                                        <<"skills", <<"skills">> >> >>]]

\* sharedResources: kind -> path below the shared root
sharedResources ==
    [r \in {"agents", "skills", "commands"} |-> [path |-> <<r>>]]

\* the agents and kinds a caller may name (some are not in the manifest)
Agents == DOMAIN agentCompatibility \cup {"ghost"}
Resources == DOMAIN sharedResources \cup {"hooks"}
Items == {<<"rev.md">>, <<"foo">>, <<"bar">>, <<"sub", "x.md">>}

\* manifest["supportedAgents"], in the order of the JSON array
supportedAgents == <<"claude-code", "cursor", "opencode">>

\* the (agent, resource) arguments of the calls made: every kind for the
\* installed tool that maps them all, and one pair for each other tool
ResourceArgs ==
    ({"claude-code"} \X Resources)
    \cup {<<"cursor", "skills">>, <<"cursor", "agents">>,
          <<"opencode", "agents">>, <<"ghost", "agents">>}

\* the (agent, resource_type, item_name) arguments of the calls made
ItemArgs ==
    {<<"claude-code", "agents", <<"rev.md">> >>,
     <<"claude-code", "agents", <<"sub", "x.md">> >>,
     <<"claude-code", "agents", <<"foo">> >>,
     <<"claude-code", "skills", <<"foo">> >>,
     <<"claude-code", "skills", <<"bar">> >>,
     <<"claude-code", "hooks", <<"rev.md">> >>,
     <<"cursor", "skills", <<"foo">> >>,
     <<"cursor", "agents", <<"rev.md">> >>,
     <<"opencode", "skills", <<"foo">> >>,
     <<"ghost", "skills", <<"foo">> >>}

MappedResources(agent) ==
    {agentCompatibility[agent].resourceMapping[i][1] :
        i \in 1..Len(agentCompatibility[agent].resourceMapping)}

resource_mapping(agent, resource) ==
    LET m == agentCompatibility[agent].resourceMapping
        i == CHOOSE j \in 1..Len(m) : m[j][1] = resource IN
    m[i][2]

\* validate without the check that the config directory is on disk
validate_skip_installed(f, agent, resource) ==
    IF agent \notin DOMAIN agentCompatibility THEN "UnknownTool"
    ELSE IF resource \notin DOMAIN sharedResources THEN "UnknownResourceKind"
    ELSE "ok"

\* _get_agent_config_dir, and the two validations every handler starts with:
\* "ok", or the check that returns False
validate(f, agent, resource) ==
    IF agent \notin DOMAIN agentCompatibility THEN "UnknownTool"
    ELSE IF ~exists(f, agentCompatibility[agent].configDir) THEN "ToolNotInstalled"
    ELSE IF resource \notin DOMAIN sharedResources THEN "UnknownResourceKind"
    ELSE "ok"

\* Path.resolve(): the real path, or on a link loop RuntimeError (Python
\* up to 3.12) or the path at the loop (Python 3.13)
resolve(f, p) ==
    LET r == realpath(f, p) IN
    IF r.st = "ok" THEN {r} ELSE {[st |-> "raise", path |-> p], [st |-> "ok", path |-> r.path]}

\* backup_name without the timestamp
backup_name_no_ts(path, now) == Append(Parent(path), Name(path) \o ".backup")

\* _backup_if_exists of sync-resource.py and sync-config.py
backup_name(path, now) == Append(Parent(path), Name(path) \o ".backup." \o ToString(now))

backup_if_exists(f, path, now) ==
    IF exists(f, path) /\ ~is_symlink(f, path)
    THEN move(f, LReal(f, path).path, backup_name(LReal(f, path).path, now))
    ELSE Ok(f)

\* _backup_if_exists of sync-single.py that leaves a file or directory in place
backup_if_exists_single_nomove(f, path, now) ==
    IF exists(f, path) /\ is_symlink(f, path) THEN Ok(unlink(f, path)) ELSE Ok(f)

\* _backup_if_exists of sync-single.py
backup_if_exists_single(f, path, now) ==
    IF exists(f, path)
    THEN IF is_symlink(f, path)
         THEN Ok(unlink(f, path))
         ELSE move(f, LReal(f, path).path, backup_name(LReal(f, path).path, now))
    ELSE Ok(f)

(***************************************************************************)
(* sync-single.py: locating the source of one item                         *)
(***************************************************************************)
\* sharedResources["skills"]["nestedSkills"], in the order of the JSON object
nestedSkills ==
    << [group |-> "g1", basePath |-> <<"g1">>, skills |-> {<<"bar">>}],
       [group |-> "g2", basePath |-> <<"g2">>, skills |-> {<<"bar">>}] >>

agent_dir_map ==
    [a \in {"claude-code", "codex", "opencode"} |->
        CASE a = "claude-code" -> ".claude"
          [] a = "codex" -> ".codex"
          [] a = "opencode" -> ".opencode"]

\* the paths start_path.rglob("SKILL.md") yields
rglob_skill_md(f, start_path) ==
    LET sr == realpath(f, start_path).path IN
    {start_path \o Suffix(sr, q) :
        q \in {x \in Under(f, sr) : Len(x) > Len(sr) /\ Name(x) = "SKILL.md"}}

\* not any(part.startswith('.') for part in item.parts)
not_hidden(item) == \A i \in 1..Len(item) : ~startswith_dot(item[i])

\* _find_skill_md: the set of paths it may return, {} for None. rglob walks
\* a directory before its subdirectories and siblings in any order, and the
\* three rounds of "for depth in range(3)" repeat the same search.
find_skill_md(f, start_path) ==
    LET skill_md == Append(start_path, "SKILL.md")
        passing == {m \in rglob_skill_md(f, start_path) : not_hidden(m)} IN
    IF exists(f, skill_md) THEN {skill_md}
    ELSE {m \in passing :
            ~\E n \in passing : /\ Parent(n) # Parent(m)
                                /\ IsPrefix(Parent(n), Parent(m))}

\* the nested-skills lookup taking the last group that lists item_name
nested_source_last(source_base, item_name, source) ==
    LET hits == {i \in 1..Len(nestedSkills) : item_name \in nestedSkills[i].skills} IN
    IF hits = {} THEN source
    ELSE LET i == CHOOSE j \in hits : \A k \in hits : j >= k IN
         source_base \o nestedSkills[i].basePath \o item_name

\* the nested-skills lookup: the first group that lists item_name
nested_source(source_base, item_name, source) ==
    LET hits == {i \in 1..Len(nestedSkills) : item_name \in nestedSkills[i].skills} IN
    IF hits = {} THEN source
    ELSE LET i == CHOOSE j \in hits : \A k \in hits : j <= k IN
         source_base \o nestedSkills[i].basePath \o item_name

\* lines 98-140 of sync_item with the marker search tried before the
\* agent-specific directory
item_source_marker_first(f, root, agent, resource_type, item_name) ==
    LET source_base == root \o sharedResources[resource_type].path
        s0 == source_base \o item_name
        s1 == IF resource_type = "skills" /\ ~exists(f, s0)
              THEN nested_source(source_base, item_name, s0) ELSE s0
        agent_skill_path == s1 \o <<agent_dir_map[agent], "skills">> \o item_name
        found == find_skill_md(f, s1) IN
    IF resource_type = "skills" /\ is_dir(f, s1) /\ agent \in DOMAIN agent_dir_map
    THEN IF found # {}
         THEN {[source |-> Parent(m), cand |-> s1,
                diag |-> IF Parent(m) # s1 THEN "NestedSkill" ELSE "none"] :
                   m \in found}
         ELSE IF is_dir(f, agent_skill_path)
              THEN {[source |-> agent_skill_path, cand |-> s1, diag |-> "AgentSkill"]}
              ELSE {[source |-> s1, cand |-> s1, diag |-> "MarkerFileNotFound"]}
    ELSE {[source |-> s1, cand |-> s1, diag |-> "none"]}

\* lines 98-140 of sync_item: the source path and the diagnostic printed
item_source(f, root, agent, resource_type, item_name) ==
    LET source_base == root \o sharedResources[resource_type].path
        s0 == source_base \o item_name
        s1 == IF resource_type = "skills" /\ ~exists(f, s0)
              THEN nested_source(source_base, item_name, s0) ELSE s0
        agent_skill_path == s1 \o <<agent_dir_map[agent], "skills">> \o item_name
        found == find_skill_md(f, s1) IN
    IF resource_type = "skills" /\ is_dir(f, s1) /\ agent \in DOMAIN agent_dir_map
    THEN IF is_dir(f, agent_skill_path)
         THEN {[source |-> agent_skill_path, cand |-> s1, diag |-> "AgentSkill"]}
         ELSE IF found = {}
              THEN {[source |-> s1, cand |-> s1,
                     diag |-> IF ~exists(f, Append(s1, "SKILL.md"))
                              THEN "MarkerFileNotFound" ELSE "none"]}
              ELSE {[source |-> Parent(m), cand |-> s1,
                     diag |-> IF Parent(m) # s1 THEN "NestedSkill" ELSE "none"] :
                        m \in found}
    ELSE {[source |-> s1, cand |-> s1, diag |-> "none"]}

(***************************************************************************)
(* The handlers                                                            *)
(***************************************************************************)
NoCall ==
    [op |-> "none", agent |-> "", resource |-> "", item |-> <<>>, strategy |-> "",
     source |-> <<>>, dest |-> <<>>, target |-> <<>>, mk |-> <<>>, todo |-> <<>>,
     bk |-> "none", dk |-> "none", diag |-> "none", rerun |-> FALSE,
     cand |-> <<>>, inbatch |-> FALSE, batch |-> <<>>, count |-> 0, status |-> {}]

\* the call repeats the previous one, which returned True
Again(op, agent, resource, item, strategy) ==
    /\ ret = "True"
    /\ call.op = op /\ call.agent = agent /\ call.resource = resource
    /\ call.item = item /\ call.strategy = strategy

\* a handler returns False, or stops on an exception, or returns True; inside
\* sync_all the value goes to "if sync_func(agent): success_count += 1" and
\* an exception leaves the loop
Finish(c, r) ==
    /\ ret' = r
    /\ IF c.inbatch /\ r # "raise"
       THEN /\ pc' = "batch"
            /\ call' = [c EXCEPT !.count = IF r = "True" THEN @ + 1 ELSE @]
       ELSE /\ pc' = "idle"
            /\ call' = c

Start(c) ==
    /\ pc' = "mkdir"
    /\ call' = c
    /\ ret' = "none"
    /\ fs' = fs

\* ResourceSyncer.sync_resource, up to the first filesystem call
sync_resource(agent, resource, strategy) ==
    LET c == [NoCall EXCEPT !.op = "sync_resource", !.agent = agent,
                            !.resource = resource, !.strategy = strategy,
                            !.rerun = Again("sync_resource", agent, resource, <<>>, strategy)]
        v == validate(fs, agent, resource) IN
    /\ pc = "idle" /\ nops < MaxOps
    /\ nops' = nops + 1
    /\ fs0' = fs
    /\ UNCHANGED <<clock, sharedConfigPath>>
    /\ IF v # "ok" THEN fs' = fs /\ Finish([c EXCEPT !.diag = v], "False")
       ELSE IF resource \notin MappedResources(agent)
       THEN fs' = fs /\ Finish([c EXCEPT !.diag = "UnsupportedKindForTool"], "False")
       ELSE \E t \in resolve(fs, agentCompatibility[agent].configDir
                                    \o resource_mapping(agent, resource)) :
              LET c2 == [c EXCEPT !.source = sharedConfigPath \o sharedResources[resource].path,
                                  !.dest = agentCompatibility[agent].configDir
                                              \o resource_mapping(agent, resource),
                                  !.target = t.path, !.mk = Parent(t.path)] IN
              IF t.st = "raise" THEN fs' = fs /\ Finish(c, "raise")
              ELSE Start(c2)

\* SingleItemSyncer.sync_item, up to the first filesystem call
sync_item(agent, resource_type, item_name, strategy) ==
    LET c == [NoCall EXCEPT !.op = "sync_item", !.agent = agent,
                            !.resource = resource_type, !.item = item_name,
                            !.strategy = strategy,
                            !.rerun = Again("sync_item", agent, resource_type, item_name, strategy)]
        v == validate(fs, agent, resource_type) IN
    /\ pc = "idle" /\ nops < MaxOps
    /\ nops' = nops + 1
    /\ fs0' = fs
    /\ UNCHANGED <<clock, sharedConfigPath>>
    /\ IF v # "ok" THEN fs' = fs /\ Finish([c EXCEPT !.diag = v], "False")
       ELSE \E s \in item_source(fs, sharedConfigPath, agent, resource_type, item_name) :
              LET c1 == [c EXCEPT !.source = s.source, !.cand = s.cand,
                                  !.diag = s.diag] IN
              IF ~exists(fs, s.source)
              THEN fs' = fs /\ Finish([c1 EXCEPT !.diag = "SourceNotFound"], "False")
              ELSE IF resource_type \notin MappedResources(agent)
              THEN fs' = fs /\ Finish([c1 EXCEPT !.diag = "UnsupportedKindForTool"], "False")
              ELSE \E t \in resolve(fs, agentCompatibility[agent].configDir
                                           \o resource_mapping(agent, resource_type)) :
                     IF t.st = "raise" THEN fs' = fs /\ Finish(c1, "raise")
                     ELSE Start([c1 EXCEPT !.dest = agentCompatibility[agent].configDir
                                                        \o resource_mapping(agent, resource_type)
                                                        \o item_name,
                                           !.target = t.path \o item_name, !.mk = t.path])

\* the resources a ConfigSyncer loop handles: "continue" skips the kinds
\* that are not in sharedResources
ConfigTodo(agent) ==
    SelectSeq(agentCompatibility[agent].resourceMapping,
              LAMBDA e : e[1] \in DOMAIN sharedResources)

\* the locals of one round of the loop of sync_symlink / sync_copy
ConfigRound(c, todo) ==
    [c EXCEPT !.resource = todo[1][1],
              !.source = sharedConfigPath \o sharedResources[todo[1][1]].path,
              !.dest = agentCompatibility[c.agent].configDir \o todo[1][2],
              !.target = agentCompatibility[c.agent].configDir \o todo[1][2],
              !.mk = Parent(agentCompatibility[c.agent].configDir \o todo[1][2]),
              !.todo = todo,
              !.bk = "none", !.dk = "none"]

\* the body of ConfigSyncer.sync_symlink and ConfigSyncer.sync_copy, up to
\* the loop
config_call(c) ==
    /\ fs0' = fs
    /\ IF \/ c.agent \notin DOMAIN agentCompatibility
          \/ ~exists(fs, agentCompatibility[c.agent].configDir)
       THEN fs' = fs /\ Finish([c EXCEPT !.diag = "ToolNotInstalled"], "False")
       ELSE IF ConfigTodo(c.agent) = <<>> THEN fs' = fs /\ Finish(c, "True")
       ELSE Start(ConfigRound(c, ConfigTodo(c.agent)))

config_op(strategy) == IF strategy = "symlink" THEN "sync_symlink" ELSE "sync_copy"

\* ConfigSyncer.sync_symlink and ConfigSyncer.sync_copy called on their own
sync_config(agent, strategy) ==
    /\ pc = "idle" /\ nops < MaxOps
    /\ nops' = nops + 1
    /\ UNCHANGED <<clock, sharedConfigPath>>
    /\ config_call([NoCall EXCEPT !.op = config_op(strategy),
                                  !.agent = agent, !.strategy = strategy])

sync_symlink(agent) == sync_config(agent, "symlink")
sync_copy(agent) == sync_config(agent, "copy")

\* ConfigSyncer.sync_all, up to its loop
sync_all(strategy) ==
    /\ pc = "idle" /\ nops < MaxOps
    /\ nops' = nops + 1
    /\ fs0' = fs
    /\ UNCHANGED <<clock, sharedConfigPath, fs>>
    /\ pc' = "batch"
    /\ ret' = "none"
    /\ call' = [NoCall EXCEPT !.op = "sync_all", !.strategy = strategy,
                              !.inbatch = TRUE, !.batch = supportedAgents]

\* one round of "for agent in supportedAgents", or the end of sync_all
sync_all_next ==
    /\ pc = "batch"
    /\ UNCHANGED <<clock, sharedConfigPath, nops>>
    /\ IF call.batch = <<>>
       THEN /\ pc' = "idle"
            /\ ret' = "None"
            /\ call' = [call EXCEPT !.op = "sync_all"]
            /\ UNCHANGED <<fs, fs0>>
       ELSE config_call([NoCall EXCEPT !.op = config_op(call.strategy),
                                      !.agent = Head(call.batch),
                                      !.strategy = call.strategy,
                                      !.inbatch = TRUE,
                                      !.batch = Tail(call.batch),
                                      !.count = call.count])

\* what the backup step finds at the destination
DestKind(f, p) ==
    IF is_symlink(f, p) THEN (IF exists(f, p) THEN "link" ELSE "dangling")
    ELSE LKind(f, p)

\* target.parent.mkdir(parents=True, exist_ok=True) (target_base.mkdir in sync_item)
step_mkdir ==
    LET m == mkdir_parents(fs, call.mk) IN
    /\ pc = "mkdir"
    /\ UNCHANGED <<clock, sharedConfigPath, nops, fs0>>
    /\ fs' = m.fs
    /\ IF m.ok THEN pc' = "backup" /\ UNCHANGED <<call, ret>>
       ELSE Finish(call, "raise")

\* self._backup_if_exists(target)
step_backup ==
    LET b == IF call.op = "sync_item"
             THEN backup_if_exists_single(fs, call.target, clock)
             ELSE backup_if_exists(fs, call.target, clock)
        c == [call EXCEPT !.bk = DestKind(fs, call.target),
                          !.dk = DestKind(fs, call.dest)] IN
    /\ pc = "backup"
    /\ UNCHANGED <<clock, sharedConfigPath, nops, fs0>>
    /\ fs' = b.fs
    /\ IF b.ok
       THEN /\ pc' = IF call.op \in {"sync_resource", "sync_symlink"}
                     THEN "unlink" ELSE "write"
            /\ call' = c
            /\ ret' = ret
       ELSE Finish(c, "raise")

\* if target.is_symlink(): target.unlink()
step_unlink ==
    /\ pc = "unlink"
    /\ UNCHANGED <<clock, sharedConfigPath, nops, fs0, call, ret>>
    /\ fs' = IF is_symlink(fs, call.target) THEN unlink(fs, call.target) ELSE fs
    /\ pc' = "write"

\* target.symlink_to(source), or copytree / copy2 of the source
write(f, source, target, strategy) ==
    IF strategy = "symlink" THEN symlink_to(f, target, source)
    ELSE IF is_dir(f, source) THEN copytree(f, source, target, MaxDepth)
    ELSE copy2(f, source, target)

step_write ==
    LET w == write(fs, call.source, call.target, call.strategy) IN
    /\ pc = "write"
    /\ UNCHANGED <<clock, sharedConfigPath, nops, fs0>>
    /\ fs' = w.fs
    /\ IF ~w.ok THEN Finish(call, "raise")
       ELSE IF Len(call.todo) > 1
       THEN /\ pc' = "mkdir"
            /\ call' = ConfigRound(call, Tail(call.todo))
            /\ ret' = ret
       ELSE Finish(call, "True")

\* what a status inspector prints for a destination: a link, an independent
\* directory, an independent file, or absent
status_class(f, target) ==
    IF is_symlink(f, target) THEN "link"
    ELSE IF is_dir(f, target) THEN "dir"
    ELSE IF exists(f, target) THEN "file"
    ELSE "absent"

\* a status inspector ends: the lines it printed, no return value
Shown(c, lines, r) ==
    /\ pc = "idle" /\ nops < MaxOps
    /\ nops' = nops + 1
    /\ fs' = fs
    /\ fs0' = fs
    /\ pc' = "idle"
    /\ ret' = r
    /\ call' = [c EXCEPT !.status = lines]
    /\ UNCHANGED <<clock, sharedConfigPath>>

\* ResourceSyncer.show_resource_status
show_resource_status(agent, resource) ==
    LET c == [NoCall EXCEPT !.op = "show_resource_status", !.agent = agent,
                            !.resource = resource] IN
    IF \/ agent \notin DOMAIN agentCompatibility
       \/ ~exists(fs, agentCompatibility[agent].configDir)
    THEN Shown([c EXCEPT !.diag = "ToolNotInstalled"], {}, "None")
    ELSE IF resource \notin MappedResources(agent)
    THEN Shown([c EXCEPT !.diag = "UnsupportedKindForTool"], {}, "None")
    ELSE \E t \in resolve(fs, agentCompatibility[agent].configDir
                                 \o resource_mapping(agent, resource)) :
           IF t.st = "raise" THEN Shown(c, {}, "raise")
           ELSE Shown([c EXCEPT !.dest = agentCompatibility[agent].configDir
                                            \o resource_mapping(agent, resource),
                               !.target = t.path],
                      {<<agent, resource, <<>>, status_class(fs, t.path)>>}, "None")

\* SingleItemSyncer.show_item_status
show_item_status(agent, resource_type, item_name) ==
    LET c == [NoCall EXCEPT !.op = "show_item_status", !.agent = agent,
                            !.resource = resource_type, !.item = item_name] IN
    IF \/ agent \notin DOMAIN agentCompatibility
       \/ ~exists(fs, agentCompatibility[agent].configDir)
    THEN Shown([c EXCEPT !.diag = "ToolNotInstalled"], {}, "None")
    ELSE IF resource_type \notin MappedResources(agent)
    THEN Shown([c EXCEPT !.diag = "UnsupportedKindForTool"], {}, "None")
    ELSE \E t \in resolve(fs, agentCompatibility[agent].configDir
                                 \o resource_mapping(agent, resource_type)) :
           IF t.st = "raise" THEN Shown(c, {}, "raise")
           ELSE Shown([c EXCEPT !.dest = agentCompatibility[agent].configDir
                                            \o resource_mapping(agent, resource_type)
                                            \o item_name,
                               !.target = t.path \o item_name],
                      {<<agent, resource_type, item_name,
                         status_class(fs, t.path \o item_name)>>}, "None")

\* ConfigSyncer.show_status: one line for every mapping of every installed
\* tool; anything that exists and is not a link is printed as a directory
show_status ==
    LET installed == {i \in 1..Len(supportedAgents) :
                        /\ supportedAgents[i] \in DOMAIN agentCompatibility
                        /\ exists(fs, agentCompatibility[supportedAgents[i]].configDir)}
        line(a, e) ==
            LET target == agentCompatibility[a].configDir \o e[2] IN
            <<a, e[1], <<>>,
              IF is_symlink(fs, target) THEN "link"
              ELSE IF exists(fs, target) THEN "dir"
              ELSE "absent">> IN
    Shown([NoCall EXCEPT !.op = "show_status"],
          UNION {{line(supportedAgents[i],
                       agentCompatibility[supportedAgents[i]].resourceMapping[j]) :
                    j \in 1..Len(agentCompatibility[supportedAgents[i]].resourceMapping)} :
                 i \in installed},
          "None")

\* a second passes between two calls
Tick ==
    /\ pc = "idle"
    /\ 0 < nops /\ nops < MaxOps
    /\ clock < MaxTime
    /\ clock' = clock + 1
    /\ UNCHANGED <<fs, sharedConfigPath, pc, call, fs0, ret, nops>>

(***************************************************************************)
(* Initial filesystems                                                     *)
(***************************************************************************)
\* the directories md (relative to skill) and their ancestors, a marker in each md
MarkerTree(skill, mds) ==
    [q \in UNION {{skill \o SubSeq(md, 1, k) : k \in 1..Len(md)} : md \in mds} |-> Dir]
    @@ [q \in {skill \o md \o <<"SKILL.md">> : md \in mds} |-> File(2)]

SourceTree(root, mds) ==
    MarkerTree(root \o <<"skills", "foo">>, mds)
    @@ (root :> Dir)
    @@ (root \o <<"agents">> :> Dir)
    @@ (root \o <<"agents", "rev.md">> :> File(1))
    @@ (root \o <<"agents", "sub">> :> Dir)
    @@ (root \o <<"agents", "sub", "x.md">> :> File(4))
    @@ (root \o <<"skills">> :> Dir)
    @@ (root \o <<"skills", "foo">> :> Dir)
    @@ (root \o <<"skills", "foo", "notes.md">> :> File(3))

Layouts ==
    { {<<>>}, {<<"a">>}, {<<"a", "b", "c", "d">>}, {<<".hid">>}, {},
      {<<"a">>, <<".hid">>}, {<<>>, <<".claude", "skills", "foo">>},
      {<<".claude", "skills", "foo">>} }

\* the layouts below a shared root whose own name begins with '.'
DotRootLayouts == { {<<>>}, {<<"a">>} }

\* the skill "bar" of the nested groups: in both groups, in the second group
\* only, and directly below skills as well as in the first group
NestedTrees(root) ==
    LET skill(d, c) == (d :> Dir) @@ (Append(d, "SKILL.md") :> File(2))
                       @@ (Append(d, "doc.md") :> File(c))
        group(g, c) == (root \o <<"skills", g>> :> Dir)
                       @@ skill(root \o <<"skills", g, "bar">>, c) IN
    { group("g1", 5) @@ group("g2", 6),
      group("g2", 6),
      skill(root \o <<"skills", "bar">>, 7) @@ group("g1", 5) }

\* what is at a destination before the first call
Priors(root) ==
    LET at(dest, src) ==
          { (dest :> File(9)),
            (dest :> Dir) @@ (Append(dest, "old.md") :> File(9)),
            (dest :> Link(src)),
            (dest :> Link(<<"gone">>)),
            (dest :> Link(<<"other">>)) @@ (<<"other">> :> Dir)
                @@ (<<"other", "keep.md">> :> File(8)) } IN
    at(<<"cc", "agents">>, root \o <<"agents">>)
    \cup {(<<"cc", "skills">> :> Dir) @@ g :
            g \in at(<<"cc", "skills", "foo">>, root \o <<"skills", "foo">>)}

ToolDirs == (<<"cc">> :> Dir) @@ (<<"cu">> :> Dir)

Init ==
    /\ clock = 1
    /\ pc = "idle"
    /\ call = NoCall
    /\ ret = "none"
    /\ nops = 0
    /\ sharedConfigPath \in {<<"shared">>, <<".claude">>}
    /\ \/ /\ sharedConfigPath = <<"shared">>
          /\ \E mds \in Layouts : fs = SourceTree(sharedConfigPath, mds) @@ ToolDirs
       \/ /\ sharedConfigPath = <<".claude">>
          /\ \E mds \in DotRootLayouts :
                fs = SourceTree(sharedConfigPath, mds) @@ ToolDirs
       \/ /\ sharedConfigPath = <<"shared">>
          /\ \E g \in Priors(sharedConfigPath) \cup NestedTrees(sharedConfigPath) :
                fs = SourceTree(sharedConfigPath, {<<"a">>}) @@ ToolDirs @@ g
    /\ fs0 = fs

Next ==
    \/ \E x \in ResourceArgs, s \in Strategies : sync_resource(x[1], x[2], s)
    \/ \E x \in ItemArgs, s \in Strategies : sync_item(x[1], x[2], x[3], s)
    \/ \E a \in Agents : sync_symlink(a)
    \/ \E a \in Agents : sync_copy(a)
    \/ \E s \in Strategies : sync_all(s)
    \/ sync_all_next
    \/ \E x \in ResourceArgs : show_resource_status(x[1], x[2])
    \/ \E x \in ItemArgs : show_item_status(x[1], x[2], x[3])
    \/ show_status
    \/ step_mkdir
    \/ step_backup
    \/ step_unlink
    \/ step_write
    \/ Tick

Spec == Init /\ [][Next]_vars

\* the filesystem is a tree: every entry lies in a directory
TypeOK ==
    /\ \A p \in DOMAIN fs : Kind(fs, Parent(p)) = "dir"
    /\ pc \in {"idle", "batch", "mkdir", "backup", "unlink", "write"}
    /\ ret \in {"none", "True", "False", "None", "raise"}
    /\ clock \in 1..MaxTime
    /\ nops \in 0..MaxOps

(***************************************************************************)
(* Properties                                                              *)
(***************************************************************************)
SourceTreeOf(f) == Restrict(f, Under(f, sharedConfigPath))

\* the tree at the real path r, paths relative to r
TreeAt(f, r) == [q \in {Suffix(r, x) : x \in Under(f, r)} |-> f[r \o q]]
\* the tree a path leads to
RelTree(f, p) == TreeAt(f, realpath(f, p).path)
RelFiles(f, p) == {q \in DOMAIN RelTree(f, p) : RelTree(f, p)[q].t = "file"}

\* the entry X.backup.<timestamp> beside X
BackupEntry(X, now) == Append(Parent(X), Name(X) \o ".backup." \o ToString(now))

\* a handler, or a round of the loop of sync_symlink / sync_copy, ends
RoundEnds == pc # "idle" /\ (pc' = "idle" \/ (pc = "write" /\ pc' = "mkdir"))

\* C1: no sync operation, repeated or not, changes anything inside the
\* shared source tree.
C1_SourceTreeNeverChanges ==
    [][SourceTreeOf(fs') = SourceTreeOf(fs)]_vars

\* C2: when a link-strategy sync succeeds, the destination is a symbolic
\* link whose resolved target is the resolved source, whatever was at the
\* destination before.
C2_LinkSyncLeavesLinkToSource ==
    [][(/\ pc = "write"
        /\ call.strategy = "symlink"
        /\ (pc' = "mkdir" \/ ret' = "True"))
       => /\ is_symlink(fs', call.dest)
          /\ realpath(fs', call.dest).st = "ok"
          /\ realpath(fs', call.dest).path = realpath(fs', call.source).path]_vars

\* the destination is absent, a file, a directory or a link to the source
ListedPrior(f, dest, source) ==
    \/ DestKind(f, dest) \in {"none", "file", "dir"}
    \/ /\ is_symlink(f, dest)
       /\ f[LReal(f, dest).path].to = source

\* C3: a duplicate-strategy sync of a directory source leaves at the
\* destination an independent directory holding the relative file paths the
\* source had at call time, whether the destination was absent, a file, a
\* directory or a link to the source.
C3_CopyLeavesIndependentCopy ==
    [][(/\ RoundEnds
        /\ call.strategy = "copy"
        /\ call.source # <<>>
        /\ is_dir(fs0, call.source)
        /\ ListedPrior(fs0, call.dest, call.source))
       => /\ LKind(fs', call.dest) = "dir"
          /\ RelFiles(fs', call.dest) = RelFiles(fs0, call.source)]_vars

BackupMade(f, g, X, B) ==
    /\ {q \in DOMAIN g \ DOMAIN f : Parent(q) = Parent(X)} = {B}
    /\ TreeAt(g, B) = TreeAt(f, X)
    /\ X \notin DOMAIN g

\* C5 as stated: the backup step turns a file or directory X into exactly
\* one new entry X.backup.<timestamp> of the same parent, holding the old
\* content, and leaves no entry named X.
C5_BackupRenamesInPlace ==
    [][(pc = "backup" /\ DestKind(fs, call.target) \in {"file", "dir"})
       => BackupMade(fs, fs', LReal(fs, call.target).path,
                     BackupEntry(LReal(fs, call.target).path, clock))]_vars

\* C5 amended: the same, when no entry X.backup.<timestamp> of this second
\* exists yet.
C5_BackupRenamesInPlaceWhenNameFree ==
    [][(/\ pc = "backup"
        /\ DestKind(fs, call.target) \in {"file", "dir"}
        /\ BackupEntry(LReal(fs, call.target).path, clock) \notin DOMAIN fs)
       => BackupMade(fs, fs', LReal(fs, call.target).path,
                     BackupEntry(LReal(fs, call.target).path, clock))]_vars

C5_Witness ==
    /\ pc \in {"unlink", "write"}
    /\ call.bk = "dir"
    /\ Kind(fs, BackupEntry(call.target, clock)) = "dir"
    /\ BackupEntry(call.target, clock) \notin DOMAIN fs0
    /\ LKind(fs, call.target) = "none"

\* C6: when the destination is a symbolic link, dangling or not, the backup
\* step removes it and makes no backup, so the write finds the path free.
C6_LinkDestinationRemoved ==
    (/\ pc = "write"
     /\ call.op \in {"sync_item", "sync_resource", "sync_symlink"}
     /\ call.dk \in {"link", "dangling"})
    => /\ LKind(fs, call.dest) = "none"
       /\ BackupEntry(call.target, clock) \notin DOMAIN fs \ DOMAIN fs0

\* C7: a sync_resource or sync_item whose source does not exist returns
\* failure and has changed nothing.
C7_MissingSourceFailsBeforeMutation ==
    (/\ call.op \in {"sync_resource", "sync_item"}
     /\ call.source # <<>>
     /\ ~exists(fs0, call.source))
    => (pc = "idle" /\ ret = "False" /\ fs = fs0)

\* the four resolution errors
InvalidPair(f, agent, resource) ==
    \/ agent \notin DOMAIN agentCompatibility
    \/ ~exists(f, agentCompatibility[agent].configDir)
    \/ resource \notin DOMAIN sharedResources
    \/ resource \notin MappedResources(agent)

\* C8: sync_resource and sync_item return failure and leave the filesystem
\* as it was when the tool is unknown or not installed, or the kind is
\* unknown or not mapped for the tool.
C8_ValidationFailureChangesNothing ==
    (/\ call.op \in {"sync_resource", "sync_item"}
     /\ InvalidPair(fs0, call.agent, call.resource))
    => (pc = "idle" /\ ret = "False" /\ fs = fs0)

C8_Witness ==
    /\ pc = "idle" /\ ret = "False"
    /\ call.op = "sync_item"
    /\ call.agent = "cursor"
    /\ call.diag = "UnsupportedKindForTool"
    /\ fs = fs0

\* the directory sync_item looks at for an item of kind skills that lies
\* directly below the kind's path
Candidate(item) == sharedConfigPath \o sharedResources["skills"].path \o item

\* a sync_item of a skill got past the validations, the candidate is a
\* directory and holds no override directory for the tool
MarkerSearchCase ==
    /\ call.op = "sync_item" /\ call.resource = "skills"
    /\ call.agent \in DOMAIN agent_dir_map
    /\ call.source # <<>>
    /\ is_dir(fs0, Candidate(call.item))
    /\ ~is_dir(fs0, Candidate(call.item)
                      \o <<agent_dir_map[call.agent], "skills">> \o call.item)

\* how many directories below the candidate the marker m lies
MarkerDepth(cand, m) == Len(Suffix(cand, Parent(m)))

\* C9: when every marker below the candidate lies at depth 4 or deeper, the
\* search finds none: the source stays the candidate and the
\* marker-not-found diagnostic is produced.
C9_DeepMarkerNotFound ==
    (/\ MarkerSearchCase
     /\ rglob_skill_md(fs0, Candidate(call.item)) # {}
     /\ \A m \in rglob_skill_md(fs0, Candidate(call.item)) :
            MarkerDepth(Candidate(call.item), m) > SearchBound)
    => /\ call.source = Candidate(call.item)
       /\ call.diag = "MarkerFileNotFound"

\* the markers within the search bound whose directories below the candidate
\* have no name beginning with '.'
VisibleMarkers(f, cand) ==
    {m \in rglob_skill_md(f, cand) :
        /\ MarkerDepth(cand, m) <= SearchBound
        /\ not_hidden(Suffix(cand, Parent(m)))}

\* C10: the candidate stays the source when it holds the marker itself;
\* otherwise, when a marker lies within the bound below directories whose
\* names do not begin with '.', the source is the directory of such a
\* marker, whatever the names of the directories above the candidate.
C10_MarkerDirectoryBecomesSource ==
    MarkerSearchCase
    => IF exists(fs0, Append(Candidate(call.item), "SKILL.md"))
       THEN call.source = Candidate(call.item)
       ELSE VisibleMarkers(fs0, Candidate(call.item)) # {}
            => call.source \in {Parent(m) : m \in VisibleMarkers(fs0, Candidate(call.item))}

\* the directory of kind skills, and the groups that list an item
SkillsBase == sharedConfigPath \o sharedResources["skills"].path
GroupsListing(item) == {i \in 1..Len(nestedSkills) : item \in nestedSkills[i].skills}
FirstGroupPath(item) ==
    LET i == CHOOSE j \in GroupsListing(item) : \A k \in GroupsListing(item) : j <= k IN
    SkillsBase \o nestedSkills[i].basePath \o item

\* a sync_item of kind skills that got past the validations
SkillLookup ==
    /\ call.op = "sync_item" /\ call.resource = "skills"
    /\ call.cand # <<>>

\* C11: for kind skills, when base/item exists it is the directory the
\* lookup goes on with and the nested groups play no part; when it does not
\* exist and groups list the item, the lookup goes on with
\* base/basePath/item of the first such group, and the source lies there.
C11_NestedGroupResolution ==
    SkillLookup
    => /\ call.cand = IF exists(fs0, SkillsBase \o call.item)
                          \/ GroupsListing(call.item) = {}
                      THEN SkillsBase \o call.item
                      ELSE FirstGroupPath(call.item)
       /\ IsPrefix(call.cand, call.source)

C11_Witness ==
    /\ pc = "idle" /\ ret = "True"
    /\ SkillLookup
    /\ ~exists(fs0, SkillsBase \o call.item)
    /\ Cardinality(GroupsListing(call.item)) = 2
    /\ \A i \in GroupsListing(call.item) :
          is_dir(fs0, SkillsBase \o nestedSkills[i].basePath \o call.item)
    /\ call.source = FirstGroupPath(call.item)
    /\ realpath(fs, call.dest).path = call.source

\* the agent-specific directory of the tool inside the looked-up directory
OverrideDir == call.cand \o <<agent_dir_map[call.agent], "skills">> \o call.item

\* C12: for kind skills, when the looked-up directory holds the tool's
\* agent-specific directory, that directory is the source and the marker
\* search is not run, with or without a marker in the shared directory.
C12_OverrideDirectoryWins ==
    (/\ SkillLookup
     /\ call.agent \in DOMAIN agent_dir_map
     /\ is_dir(fs0, call.cand)
     /\ is_dir(fs0, OverrideDir))
    => /\ call.source = OverrideDir
       /\ call.diag = "AgentSkill"

C12_Witness ==
    /\ pc = "idle" /\ ret = "True"
    /\ SkillLookup
    /\ call.agent \in DOMAIN agent_dir_map
    /\ is_dir(fs0, OverrideDir)
    /\ exists(fs0, Append(call.cand, "SKILL.md"))
    /\ call.source = OverrideDir
    /\ realpath(fs, call.dest).path = OverrideDir

\* C13: a sync_all that has stopped has attempted every supported tool and
\* ended with its success count; no failure on one tool ends it early.
C13_BatchAttemptsEveryTool ==
    (pc = "idle" /\ call.inbatch)
    => /\ call.op = "sync_all"
       /\ call.batch = <<>>
       /\ ret = "None"

\* C14: when a sync operation comes to write the link or copy, after the
\* parent directory was created and the backup step ran, the parent
\* directory of the destination path exists, whatever the item name.
C14_ParentExistsAtWrite ==
    pc = "write" => is_dir(fs, Parent(call.target))

\* the class a status inspector is to print after a successful sync
ClassAfter(strategy) == IF strategy = "symlink" THEN {"link"} ELSE {"dir", "file"}

\* the status inspector now returning looks at what the last call synced
SameDestination ==
    /\ ret = "True"
    /\ \/ call.op = "sync_resource" /\ call'.op = "show_resource_status"
       \/ call.op = "sync_item" /\ call'.op = "show_item_status"
    /\ call'.agent = call.agent /\ call'.resource = call.resource
    /\ call'.item = call.item

\* C15: a status inspector changes nothing; asked about the destination of
\* the successful sync just made it prints a link after a link-strategy
\* sync and an independent directory or file after a duplicate-strategy
\* sync, and it prints absent when there is nothing at the destination.
C15_StatusReportsDestinationType ==
    [][(call'.op \in {"show_resource_status", "show_item_status", "show_status"}
        /\ call' # call)
       => /\ fs' = fs
          /\ SameDestination =>
                \E cls \in ClassAfter(call.strategy) :
                   call'.status = {<<call.agent, call.resource, call.item, cls>>}
          /\ (/\ ret = "True"
               /\ call.op \in {"sync_symlink", "sync_copy"}
               /\ call'.op = "show_status")
              => \A l \in call'.status :
                    (l[1] = call.agent /\ l[2] \in DOMAIN sharedResources)
                    => l[4] \in ClassAfter(call.strategy)
          /\ \A l \in call'.status :
                (call'.op # "show_status" /\ LKind(fs, call'.dest) = "none")
                => l[4] = "absent"]_vars

====
